---- MODULE Spec2Model ----
(***************************************************************************)
(* Request construction and URL serialization of lotr-api-rs.              *)
(*                                                                         *)
(* A Rust String is modelled as a sequence of symbols.  A symbol is either *)
(* one delimiter character ("/", "?", "&", "=", ",", ":", "!", "<", ">"),  *)
(* one decimal digit, or a word of letters that the code only ever emits   *)
(* or receives as a whole ("book", "sort", "_id", ...).  String            *)
(* concatenation (push_str, format!) is sequence concatenation.            *)
(* Option<T> is modelled as a sequence of length at most one.              *)
(***************************************************************************)
EXTENDS Integers, Sequences, FiniteSets, TLC

None == <<>>
Some(v) == <<v>>
IsSome(o) == o # <<>>
Unwrap(o) == o[1]

(***************************************************************************)
(* Bounds of the model.                                                    *)
(***************************************************************************)
MaxIdLen == 1
MaxValues == 1

(***************************************************************************)
(* item/mod.rs, item/attribute.rs: the closed taxonomies.                  *)
(***************************************************************************)
ItemType == {"Book", "Movie", "Quote", "Character", "Chapter"}

BookAttribute == {"Id", "Name"}
MovieAttribute ==
    {"Id", "Name", "RuntimeInMinutes", "BudgetInMillions",
     "BoxOfficeRevenueInMillions", "AcademyAwardNominations",
     "AcademyAwardWins", "RottenTomatoesScore"}
QuoteAttribute == {"Id", "Dialog", "Movie", "Character"}
CharacterAttribute ==
    {"Id", "Height", "Gender", "Birth", "Spouse", "Death", "Realm", "Hair",
     "Name", "WikiUrl"}
ChapterAttribute == {"Id", "ChapterName", "Book"}

\* enum Attribute: an outer variant (the resource) wrapping an inner variant.
Attribute ==
    [variant : {"Book"}, inner : BookAttribute]
    \cup [variant : {"Movie"}, inner : MovieAttribute]
    \cup [variant : {"Quote"}, inner : QuoteAttribute]
    \cup [variant : {"Character"}, inner : CharacterAttribute]
    \cup [variant : {"Chapter"}, inner : ChapterAttribute]

\* Variant of the conversion that files the chapter attributes under Book.
ItemTypeFromAttribute_ChapterAsBook(attribute) ==
    CASE attribute.variant = "Book" -> "Book"
      [] attribute.variant = "Movie" -> "Movie"
      [] attribute.variant = "Quote" -> "Quote"
      [] attribute.variant = "Character" -> "Character"
      [] attribute.variant = "Chapter" -> "Book"

\* impl From<Attribute> for ItemType
ItemTypeFromAttribute(attribute) ==
    CASE attribute.variant = "Book" -> "Book"
      [] attribute.variant = "Movie" -> "Movie"
      [] attribute.variant = "Quote" -> "Quote"
      [] attribute.variant = "Character" -> "Character"
      [] attribute.variant = "Chapter" -> "Chapter"

\* Attribute::get_item_type, called by Sort::get_item_type and
\* Filter::get_item_type: the owning resource type of the attribute.
Attribute_get_item_type(attribute) == ItemTypeFromAttribute(attribute)

(***************************************************************************)
(* request/attributes.rs: wire names.                                      *)
(***************************************************************************)
\* Variant of ItemType::get_url in which two types share a segment.
ItemType_get_url_ChapterAsCharacter(t) ==
    CASE t = "Book" -> <<"book">>
      [] t = "Movie" -> <<"movie">>
      [] t = "Quote" -> <<"quote">>
      [] t = "Character" -> <<"character">>
      [] t = "Chapter" -> <<"character">>

ItemType_get_url(t) ==
    CASE t = "Book" -> <<"book">>
      [] t = "Movie" -> <<"movie">>
      [] t = "Quote" -> <<"quote">>
      [] t = "Character" -> <<"character">>
      [] t = "Chapter" -> <<"chapter">>

BookAttribute_get_url(a) ==
    CASE a = "Id" -> <<"_id">>
      [] a = "Name" -> <<"name">>

MovieAttribute_get_url(a) ==
    CASE a = "Id" -> <<"_id">>
      [] a = "Name" -> <<"name">>
      [] a = "RuntimeInMinutes" -> <<"runtimeInMinutes">>
      [] a = "BudgetInMillions" -> <<"budgetInMillions">>
      [] a = "BoxOfficeRevenueInMillions" -> <<"boxOfficeRevenueInMillions">>
      [] a = "AcademyAwardNominations" -> <<"academyAwardNominations">>
      [] a = "AcademyAwardWins" -> <<"academyAwardWins">>
      [] a = "RottenTomatoesScore" -> <<"rottenTomatoesScore">>

QuoteAttribute_get_url(a) ==
    CASE a = "Id" -> <<"_id">>
      [] a = "Dialog" -> <<"dialog">>
      [] a = "Movie" -> <<"movie">>
      [] a = "Character" -> <<"character">>

CharacterAttribute_get_url(a) ==
    CASE a = "Id" -> <<"_id">>
      [] a = "Height" -> <<"height">>
      [] a = "Gender" -> <<"gender">>
      [] a = "Birth" -> <<"birth">>
      [] a = "Spouse" -> <<"spouse">>
      [] a = "Death" -> <<"death">>
      [] a = "Realm" -> <<"realm">>
      [] a = "Hair" -> <<"hair">>
      [] a = "Name" -> <<"name">>
      [] a = "WikiUrl" -> <<"wikiUrl">>

ChapterAttribute_get_url(a) ==
    CASE a = "Id" -> <<"_id">>
      [] a = "ChapterName" -> <<"chapterName">>
      [] a = "Book" -> <<"book">>

Attribute_get_url(attribute) ==
    CASE attribute.variant = "Book" -> BookAttribute_get_url(attribute.inner)
      [] attribute.variant = "Movie" -> MovieAttribute_get_url(attribute.inner)
      [] attribute.variant = "Quote" -> QuoteAttribute_get_url(attribute.inner)
      [] attribute.variant = "Character" ->
            CharacterAttribute_get_url(attribute.inner)
      [] attribute.variant = "Chapter" ->
            ChapterAttribute_get_url(attribute.inner)

(***************************************************************************)
(* String helpers of the standard library used by the code.                *)
(***************************************************************************)
\* [String]::join(sep)
RECURSIVE Join(_, _)
Join(strings, sep) ==
    IF strings = <<>> THEN <<>>
    ELSE IF Len(strings) = 1 THEN strings[1]
    ELSE strings[1] \o sep \o Join(Tail(strings), sep)

\* format!("{}", n) for an unsigned integer: its decimal digits.
Digit(d) ==
    CASE d = 0 -> "0" [] d = 1 -> "1" [] d = 2 -> "2" [] d = 3 -> "3"
      [] d = 4 -> "4" [] d = 5 -> "5" [] d = 6 -> "6" [] d = 7 -> "7"
      [] d = 8 -> "8" [] d = 9 -> "9"

RECURSIVE FormatU32(_)
FormatU32(n) ==
    IF n < 10 THEN <<Digit(n)>>
    ELSE FormatU32(n \div 10) \o <<Digit(n % 10)>>

(***************************************************************************)
(* error.rs: the error kinds of the crate.                                 *)
(***************************************************************************)
Error ==
    {"SerdeJson", "Reqwest", "InvalidSort", "InvalidFilter",
     "InvalidSecondaryItemType", "Other"}

\* Result<T, Error>
Ok(v) == [tag |-> "Ok", val |-> v]
Err(e) == [tag |-> "Err", val |-> e]

(***************************************************************************)
(* request/sort.rs                                                         *)
(***************************************************************************)
SortOrder == {"Ascending", "Descending"}

\* Variant of SortOrder::get_url with the two words exchanged.
SortOrder_get_url_Swapped(o) ==
    CASE o = "Ascending" -> <<"desc">>
      [] o = "Descending" -> <<"asc">>

SortOrder_get_url(o) ==
    CASE o = "Ascending" -> <<"asc">>
      [] o = "Descending" -> <<"desc">>

Sort_new(sort_type, sort_by) == [sort_type |-> sort_type, sort_by |-> sort_by]

\* Variant of Sort::get_url that leaves the order out.
Sort_get_url_NoOrder(sort) ==
    <<"sort", "=">> \o Attribute_get_url(sort.sort_by)

Sort_get_url(sort) ==
    <<"sort", "=">>
        \o (Attribute_get_url(sort.sort_by) \o <<":">>
                \o SortOrder_get_url(sort.sort_type))

Sort_get_item_type(sort) == Attribute_get_item_type(sort.sort_by)

(***************************************************************************)
(* request/filter.rs                                                       *)
(***************************************************************************)
Operator == {"Eq", "Ne", "Gt", "Lt", "Gte", "Lte"}

\* Variant of Operator::get_url with the symbols of Gte and Lte exchanged.
Operator_get_url_GteLteSwapped(o) ==
    CASE o = "Eq" -> <<"=">>
      [] o = "Ne" -> <<"!", "=">>
      [] o = "Gt" -> <<">">>
      [] o = "Lt" -> <<"<">>
      [] o = "Gte" -> <<"<", "=">>
      [] o = "Lte" -> <<">", "=">>

Operator_get_url(o) ==
    CASE o = "Eq" -> <<"=">>
      [] o = "Ne" -> <<"!", "=">>
      [] o = "Gt" -> <<">">>
      [] o = "Lt" -> <<"<">>
      [] o = "Gte" -> <<">", "=">>
      [] o = "Lte" -> <<"<", "=">>

\* enum Filter { Match(Attribute, Operator, Vec<String>), Exists(Attribute, bool) }
\* The variants are public and are built directly; there is no constructor
\* function.
Filter_Match(attribute, operation, values) ==
    [variant |-> "Match", attribute |-> attribute, operation |-> operation,
     values |-> values]

Filter_Exists(attribute, exists) ==
    [variant |-> "Exists", attribute |-> attribute, exists |-> exists]

\* Variant of Filter::get_url that pushes '!' when the attribute must exist.
Filter_get_url_BangWhenPresent(filter) ==
    IF filter.variant = "Match"
    THEN Attribute_get_url(filter.attribute)
            \o Operator_get_url(filter.operation)
            \o Join(filter.values, <<",">>)
    ELSE (IF filter.exists THEN <<"!">> ELSE <<>>)
            \o Attribute_get_url(filter.attribute)

Filter_get_url(filter) ==
    IF filter.variant = "Match"
    THEN Attribute_get_url(filter.attribute)
            \o Operator_get_url(filter.operation)
            \o Join(filter.values, <<",">>)
    ELSE (IF ~filter.exists THEN <<"!">> ELSE <<>>)
            \o Attribute_get_url(filter.attribute)

Filter_get_item_type(filter) ==
    IF filter.variant = "Match"
    THEN Attribute_get_item_type(filter.attribute)
    ELSE Attribute_get_item_type(filter.attribute)

(***************************************************************************)
(* request/pagination.rs                                                   *)
(***************************************************************************)
Pagination_new(limit, offset, page) ==
    [limit |-> limit, offset |-> offset, page |-> page]

\* Variant of Pagination::get_url that pushes the page before the offset.
Pagination_get_url_PageFirst(pagination) ==
    LET v0 == <<>>
        v1 == IF pagination.limit # 0
              THEN Append(v0, <<"limit", "=">> \o FormatU32(pagination.limit))
              ELSE v0
        v2 == IF pagination.page # 0
              THEN Append(v1, <<"page", "=">> \o FormatU32(pagination.page))
              ELSE v1
        values == IF pagination.offset # 0
                  THEN Append(v2, <<"offset", "=">>
                                      \o FormatU32(pagination.offset))
                  ELSE v2
    IN  IF values = <<>> THEN <<>> ELSE Join(values, <<"&">>)

Pagination_get_url(pagination) ==
    LET v0 == <<>>
        v1 == IF pagination.limit # 0
              THEN Append(v0, <<"limit", "=">> \o FormatU32(pagination.limit))
              ELSE v0
        v2 == IF pagination.offset # 0
              THEN Append(v1, <<"offset", "=">> \o FormatU32(pagination.offset))
              ELSE v1
        values == IF pagination.page # 0
                  THEN Append(v2, <<"page", "=">> \o FormatU32(pagination.page))
                  ELSE v2
    IN  IF values = <<>> THEN <<>> ELSE Join(values, <<"&">>)

(***************************************************************************)
(* request/mod.rs: Request                                                 *)
(***************************************************************************)
Request_new(item_type) ==
    [item_type |-> item_type,
     id |-> None,
     secondary_item_type |-> None,
     sort |-> None,
     filter |-> None,
     pagination |-> None]

\* Variant of Request::get_item_type that ignores the secondary type.
Request_get_item_type_Primary(r) == r.item_type

Request_get_item_type(r) ==
    IF IsSome(r.secondary_item_type)
    THEN Unwrap(r.secondary_item_type)
    ELSE r.item_type

\* Variants of get_url() with one plausible slip each.
Request_get_url_SecondaryFirst(r) ==
    LET u0 == ItemType_get_url(r.item_type)
        u1 == IF IsSome(r.secondary_item_type)
              THEN u0 \o (<<"/">>
                        \o ItemType_get_url(Unwrap(r.secondary_item_type)))
              ELSE u0
        url == IF IsSome(r.id) THEN u1 \o (<<"/">> \o Unwrap(r.id)) ELSE u1
        a0 == <<>>
        a1 == IF IsSome(r.sort)
              THEN Append(a0, Sort_get_url(Unwrap(r.sort))) ELSE a0
        a2 == IF IsSome(r.filter)
              THEN Append(a1, Filter_get_url(Unwrap(r.filter))) ELSE a1
        aditional_url ==
              IF IsSome(r.pagination)
              THEN Append(a2, Pagination_get_url(Unwrap(r.pagination)))
              ELSE a2
    IN  IF aditional_url # <<>>
        THEN url \o <<"?">> \o Join(aditional_url, <<"&">>)
        ELSE url

Request_get_url_FilterFirst(r) ==
    LET u0 == ItemType_get_url(r.item_type)
        u1 == IF IsSome(r.id) THEN u0 \o (<<"/">> \o Unwrap(r.id)) ELSE u0
        url == IF IsSome(r.secondary_item_type)
               THEN u1 \o (<<"/">>
                        \o ItemType_get_url(Unwrap(r.secondary_item_type)))
               ELSE u1
        a0 == <<>>
        a1 == IF IsSome(r.filter)
              THEN Append(a0, Filter_get_url(Unwrap(r.filter))) ELSE a0
        a2 == IF IsSome(r.sort)
              THEN Append(a1, Sort_get_url(Unwrap(r.sort))) ELSE a1
        aditional_url ==
              IF IsSome(r.pagination)
              THEN Append(a2, Pagination_get_url(Unwrap(r.pagination)))
              ELSE a2
    IN  IF aditional_url # <<>>
        THEN url \o <<"?">> \o Join(aditional_url, <<"&">>)
        ELSE url

\* Variant of get_url() that gives a request for quotes a limit when the
\* caller set no pagination.
Request_get_url_QuoteDefaultLimit(r) ==
    LET u0 == ItemType_get_url(r.item_type)
        u1 == IF IsSome(r.id) THEN u0 \o (<<"/">> \o Unwrap(r.id)) ELSE u0
        url == IF IsSome(r.secondary_item_type)
               THEN u1 \o (<<"/">>
                        \o ItemType_get_url(Unwrap(r.secondary_item_type)))
               ELSE u1
        a0 == <<>>
        a1 == IF IsSome(r.sort)
              THEN Append(a0, Sort_get_url(Unwrap(r.sort))) ELSE a0
        a2 == IF IsSome(r.filter)
              THEN Append(a1, Filter_get_url(Unwrap(r.filter))) ELSE a1
        aditional_url ==
              IF IsSome(r.pagination)
              THEN Append(a2, Pagination_get_url(Unwrap(r.pagination)))
              ELSE IF Request_get_item_type(r) = "Quote"
              THEN Append(a2, <<"limit", "=", "2", "4", "0", "0">>)
              ELSE a2
    IN  IF aditional_url # <<>>
        THEN url \o <<"?">> \o Join(aditional_url, <<"&">>)
        ELSE url

Request_get_url(r) ==
    LET u0 == ItemType_get_url(r.item_type)
        u1 == IF IsSome(r.id) THEN u0 \o (<<"/">> \o Unwrap(r.id)) ELSE u0
        url == IF IsSome(r.secondary_item_type)
               THEN u1 \o (<<"/">>
                        \o ItemType_get_url(Unwrap(r.secondary_item_type)))
               ELSE u1
        a0 == <<>>
        a1 == IF IsSome(r.sort)
              THEN Append(a0, Sort_get_url(Unwrap(r.sort))) ELSE a0
        a2 == IF IsSome(r.filter)
              THEN Append(a1, Filter_get_url(Unwrap(r.filter))) ELSE a1
        aditional_url ==
              IF IsSome(r.pagination)
              THEN Append(a2, Pagination_get_url(Unwrap(r.pagination)))
              ELSE a2
    IN  IF aditional_url # <<>>
        THEN url \o <<"?">> \o Join(aditional_url, <<"&">>)
        ELSE url

(***************************************************************************)
(* request/mod.rs: RequestBuilder.  The builder owns one Request; every    *)
(* setter takes the builder by value and returns it.                       *)
(***************************************************************************)
RequestBuilder_new(item_type) == Request_new(item_type)

RequestBuilder_id(b, id) == [b EXCEPT !.id = Some(id)]

\* A secondary_item_type() that validates eagerly and ignores the call when
\* no id is set.
RequestBuilder_secondary_item_type_NeedsId(b, secondary_item_type) ==
    IF IsSome(b.id)
    THEN [b EXCEPT !.secondary_item_type = Some(secondary_item_type)]
    ELSE b

RequestBuilder_secondary_item_type(b, secondary_item_type) ==
    [b EXCEPT !.secondary_item_type = Some(secondary_item_type)]

\* A sort() that validates eagerly and drops a sort of another type.
RequestBuilder_sort_Eager(b, sort) ==
    IF Sort_get_item_type(sort) = Request_get_item_type(b)
    THEN [b EXCEPT !.sort = Some(sort)]
    ELSE b

RequestBuilder_sort(b, sort) == [b EXCEPT !.sort = Some(sort)]

\* A filter() that keeps the first filter it was given.
RequestBuilder_filter_FirstWins(b, filter) ==
    IF IsSome(b.filter) THEN b ELSE [b EXCEPT !.filter = Some(filter)]

RequestBuilder_filter(b, filter) == [b EXCEPT !.filter = Some(filter)]

RequestBuilder_pagination(b, pagination) ==
    [b EXCEPT !.pagination = Some(pagination)]

\* Variants of build() with one plausible slip each.
RequestBuilder_build_NoIdCheck(b) ==
    LET item_type == Request_get_item_type(b)
    IN  IF IsSome(b.sort) /\ Sort_get_item_type(Unwrap(b.sort)) # item_type
        THEN Err("InvalidSort")
        ELSE IF IsSome(b.filter)
                /\ Filter_get_item_type(Unwrap(b.filter)) # item_type
        THEN Err("InvalidFilter")
        ELSE Ok(b)

RequestBuilder_build_PrimaryType(b) ==
    LET item_type == b.item_type
    IN  IF IsSome(b.sort) /\ Sort_get_item_type(Unwrap(b.sort)) # item_type
        THEN Err("InvalidSort")
        ELSE IF IsSome(b.filter)
                /\ Filter_get_item_type(Unwrap(b.filter)) # item_type
        THEN Err("InvalidFilter")
        ELSE IF IsSome(b.secondary_item_type) /\ ~IsSome(b.id)
        THEN Err("InvalidSecondaryItemType")
        ELSE Ok(b)

RequestBuilder_build_FilterAsSort(b) ==
    LET item_type == Request_get_item_type(b)
    IN  IF IsSome(b.sort) /\ Sort_get_item_type(Unwrap(b.sort)) # item_type
        THEN Err("InvalidSort")
        ELSE IF IsSome(b.filter)
                /\ Filter_get_item_type(Unwrap(b.filter)) # item_type
        THEN Err("InvalidSort")
        ELSE IF IsSome(b.secondary_item_type) /\ ~IsSome(b.id)
        THEN Err("InvalidSecondaryItemType")
        ELSE Ok(b)

RequestBuilder_build_IdNeedsSecondary(b) ==
    LET item_type == Request_get_item_type(b)
    IN  IF IsSome(b.sort) /\ Sort_get_item_type(Unwrap(b.sort)) # item_type
        THEN Err("InvalidSort")
        ELSE IF IsSome(b.filter)
                /\ Filter_get_item_type(Unwrap(b.filter)) # item_type
        THEN Err("InvalidFilter")
        ELSE IF IsSome(b.secondary_item_type) # IsSome(b.id)
        THEN Err("InvalidSecondaryItemType")
        ELSE Ok(b)

\* A build() that drops a pagination of zeros from the Request it returns.
RequestBuilder_build_DropsZeroPagination(b) ==
    LET item_type == Request_get_item_type(b)
    IN  IF IsSome(b.sort) /\ Sort_get_item_type(Unwrap(b.sort)) # item_type
        THEN Err("InvalidSort")
        ELSE IF IsSome(b.filter)
                /\ Filter_get_item_type(Unwrap(b.filter)) # item_type
        THEN Err("InvalidFilter")
        ELSE IF IsSome(b.secondary_item_type) /\ ~IsSome(b.id)
        THEN Err("InvalidSecondaryItemType")
        ELSE IF b.pagination = Some(Pagination_new(0, 0, 0))
        THEN Ok([b EXCEPT !.pagination = None])
        ELSE Ok(b)

RequestBuilder_build(b) ==
    LET item_type == Request_get_item_type(b)
    IN  IF IsSome(b.sort) /\ Sort_get_item_type(Unwrap(b.sort)) # item_type
        THEN Err("InvalidSort")
        ELSE IF IsSome(b.filter)
                /\ Filter_get_item_type(Unwrap(b.filter)) # item_type
        THEN Err("InvalidFilter")
        ELSE IF IsSome(b.secondary_item_type) /\ ~IsSome(b.id)
        THEN Err("InvalidSecondaryItemType")
        ELSE Ok(b)

(***************************************************************************)
(* Inputs of the callers, drawn from bounded sets.                         *)
(***************************************************************************)
RECURSIVE SeqsUpTo(_, _)
SeqsUpTo(S, n) ==
    IF n = 0 THEN {<<>>}
    ELSE LET shorter == SeqsUpTo(S, n - 1)
         IN  shorter \cup {Append(q, x) : q \in shorter, x \in S}

\* Resource types handed to RequestBuilder::new and to secondary_item_type.
InputTypes == {"Book", "Quote"}

\* Characters an id may contain: a plain one and the URL's query delimiter.
IdChars == {"1", "?"}
Ids == SeqsUpTo(IdChars, MaxIdLen)

\* Attributes handed to Sort::new and to the Filter variants.
InputAttrs ==
    {[variant |-> "Book", inner |-> "Name"],
     [variant |-> "Quote", inner |-> "Dialog"]}

InputOps == {"Eq", "Gte"}

\* Strings handed to Filter::Match as values.
ValueStrings == {<<"a">>}
ValueLists == SeqsUpTo(ValueStrings, MaxValues)

Sorts == {Sort_new(o, a) : o \in SortOrder, a \in InputAttrs}
Filters ==
    {Filter_Match(a, o, v) : a \in InputAttrs, o \in InputOps, v \in ValueLists}
    \cup {Filter_Exists(a, e) : a \in InputAttrs, e \in BOOLEAN}

\* (limit, offset, page) handed to Pagination::new.
PaginationInputs ==
    {<<0, 0, 0>>, <<10, 0, 0>>, <<0, 10, 0>>, <<0, 0, 2>>, <<10, 10, 2>>}
Paginations == {Pagination_new(t[1], t[2], t[3]) : t \in PaginationInputs}

(***************************************************************************)
(* State of one construction: a builder is created, setters are called on  *)
(* it in any order and any number of times, build() consumes it, and       *)
(* get_url() serializes the Request that build() returned.                 *)
(***************************************************************************)
VARIABLES
    pc,         \* "builder": the builder is live; "built": build() returned;
                \* "url": get_url() returned
    builder,    \* RequestBuilder.request
    result,     \* what build() returned (None before)
    url,        \* what get_url() returned (None before)
    args,       \* the argument of new() and the last argument of each setter
    outOfOrder, \* a setter was called after one that follows it in the order
                \* id, secondary_item_type, sort, filter, pagination
    repeated,   \* some setter was called more than once
    call,       \* a serialization function called on its own: its name, its
                \* argument and what it returned (None where no such call
                \* is modelled)
    client      \* a call of the Client: the request, the decoder chosen and
                \* the outcome (None where no such call is modelled)

vars == <<pc, builder, result, url, args, outOfOrder, repeated, call, client>>

SetterRank ==
    [id |-> 1, secondary_item_type |-> 2, sort |-> 3, filter |-> 4,
     pagination |-> 5]
Setters == DOMAIN SetterRank

Init ==
    \E t \in InputTypes :
        /\ pc = "builder"
        /\ builder = RequestBuilder_new(t)
        /\ result = None
        /\ url = None
        /\ args = [item_type |-> t, id |-> None, secondary_item_type |-> None,
                   sort |-> None, filter |-> None, pagination |-> None]
        /\ outOfOrder = FALSE
        /\ repeated = FALSE
        /\ call = None
        /\ client = None

\* Bookkeeping common to the setter calls: which argument was passed last.
Called(setter, v) ==
    /\ args' = [args EXCEPT ![setter] = Some(v)]
    /\ outOfOrder' =
          (outOfOrder
             \/ \E s \in Setters :
                   IsSome(args[s]) /\ SetterRank[s] > SetterRank[setter])
    /\ repeated' = (repeated \/ IsSome(args[setter]))
    /\ UNCHANGED <<pc, result, url, call, client>>

CallId ==
    /\ pc = "builder"
    /\ \E id \in Ids :
          /\ builder' = RequestBuilder_id(builder, id)
          /\ Called("id", id)

CallSecondaryItemType ==
    /\ pc = "builder"
    /\ \E t \in InputTypes :
          /\ builder' = RequestBuilder_secondary_item_type(builder, t)
          /\ Called("secondary_item_type", t)

CallSort ==
    /\ pc = "builder"
    /\ \E s \in Sorts :
          /\ builder' = RequestBuilder_sort(builder, s)
          /\ Called("sort", s)

CallFilter ==
    /\ pc = "builder"
    /\ \E f \in Filters :
          /\ builder' = RequestBuilder_filter(builder, f)
          /\ Called("filter", f)

CallPagination ==
    /\ pc = "builder"
    /\ \E p \in Paginations :
          /\ builder' = RequestBuilder_pagination(builder, p)
          /\ Called("pagination", p)

CallBuild ==
    /\ pc = "builder"
    /\ result' = Some(RequestBuilder_build(builder))
    /\ pc' = "built"
    /\ UNCHANGED <<builder, url, args, outOfOrder, repeated, call, client>>

CallGetUrl ==
    /\ pc = "built"
    /\ Unwrap(result).tag = "Ok"
    /\ url' = Some(Request_get_url(Unwrap(result).val))
    /\ pc' = "url"
    /\ UNCHANGED <<builder, result, args, outOfOrder, repeated, call, client>>

Next ==
    \/ CallId
    \/ CallSecondaryItemType
    \/ CallSort
    \/ CallFilter
    \/ CallPagination
    \/ CallBuild
    \/ CallGetUrl

Spec == Init /\ [][Next]_vars

TypeOK ==
    /\ pc \in {"builder", "built", "url"}
    /\ builder.item_type \in ItemType
    /\ (pc = "builder") = (result = None)
    /\ (pc = "url") = (url # None)

(***************************************************************************)
(* Vocabulary of the properties, stated independently of the operators     *)
(* that model the code.                                                    *)
(***************************************************************************)
Built == pc \in {"built", "url"}
BuildResult == Unwrap(result)
BuiltOk == Built /\ BuildResult.tag = "Ok"
BuiltErr == Built /\ BuildResult.tag = "Err"

\* The resource type an attribute is declared under.
OwningType(attribute) == attribute.variant

\* Secondary type if set, else primary type.
EffectiveType(r) ==
    IF r.secondary_item_type # None THEN r.secondary_item_type[1]
    ELSE r.item_type

IdPrecondition(r) == r.secondary_item_type # None => r.id # None
SortMatches(r) ==
    r.sort # None => OwningType(r.sort[1].sort_by) = EffectiveType(r)
FilterMatches(r) ==
    r.filter # None => OwningType(r.filter[1].attribute) = EffectiveType(r)

(***************************************************************************)
(* C1: every Request that build() returns as Ok satisfies the three        *)
(* request invariants: secondary type set implies id set, sort set implies *)
(* the sort attribute's owning type is the effective type, filter set      *)
(* implies the filter attribute's owning type is the effective type.       *)
(***************************************************************************)
C1_OkRequestSatisfiesInvariants ==
    BuiltOk =>
        /\ IdPrecondition(BuildResult.val)
        /\ SortMatches(BuildResult.val)
        /\ FilterMatches(BuildResult.val)

C1_Witness ==
    /\ pc = "built"
    /\ BuildResult.tag = "Ok"
    /\ BuildResult.val.secondary_item_type # None
    /\ BuildResult.val.sort # None
    /\ BuildResult.val.filter # None

C3_SortMismatchFails ==
    (Built /\ builder.sort # None /\ IdPrecondition(builder)
        /\ ~SortMatches(builder))
    => BuildResult = Err("InvalidSort")

C3_Witness ==
    /\ pc = "built"
    /\ builder.secondary_item_type # None
    /\ builder.id # None
    /\ builder.sort # None
    /\ OwningType(builder.sort[1].sort_by) = builder.item_type
    /\ ~SortMatches(builder)
    /\ BuildResult.tag = "Err"

(***************************************************************************)
(* C4: when a filter (Match or Exists) is set, the id precondition holds,  *)
(* the sort (if any) matches and the filter attribute's owning type        *)
(* differs from the effective type, build() fails with                     *)
(* Error::InvalidFilter and returns no Request.                            *)
(***************************************************************************)
C4_FilterMismatchFails ==
    (Built /\ builder.filter # None /\ IdPrecondition(builder)
        /\ SortMatches(builder) /\ ~FilterMatches(builder))
    => BuildResult = Err("InvalidFilter")

C4_Witness ==
    /\ pc = "built"
    /\ builder.filter # None
    /\ builder.filter[1].variant = "Exists"
    /\ builder.sort # None
    /\ IdPrecondition(builder)
    /\ SortMatches(builder)
    /\ ~FilterMatches(builder)
    /\ BuildResult.tag = "Err"

(***************************************************************************)
(* C5: build() succeeds whenever the three invariants hold of the builder, *)
(* whatever the pagination and also with an id and no secondary type.      *)
(***************************************************************************)
C5_ValidRequestBuilds ==
    (Built /\ IdPrecondition(builder) /\ SortMatches(builder)
        /\ FilterMatches(builder))
    => BuildResult.tag = "Ok"

C5_Witness ==
    /\ pc = "built"
    /\ builder.id # None
    /\ builder.secondary_item_type = None
    /\ builder.pagination # None
    /\ builder.sort # None
    /\ builder.filter # None
    /\ BuildResult.tag = "Ok"

(***************************************************************************)
(* C6: the three finalization failures are reported as three pairwise      *)
(* different error kinds, each of them different from the error kind of an *)
(* invalid (empty-values) filter, and build() always returns a Result.     *)
(***************************************************************************)
\* The kind the Error enum provides for an invalid filter (error.rs:12).
EmptyValuesFilterError == "InvalidFilter"

EmptyMatch(filter) ==
    filter # None /\ filter[1].variant = "Match" /\ filter[1].values = <<>>

C7_NoEmptyMatchSerialized ==
    pc = "url" => ~EmptyMatch(BuildResult.val.filter)

(***************************************************************************)
(* C8: the path part of get_url, the text before any '?', is the primary   *)
(* type's wire segment, followed by '/<id>' iff an id is set, followed by  *)
(* '/<secondary segment>' iff a secondary type is set, and nothing else.   *)
(***************************************************************************)
RECURSIVE BeforeFirst(_, _)
BeforeFirst(s, c) ==
    IF s = <<>> \/ Head(s) = c THEN <<>>
    ELSE <<Head(s)>> \o BeforeFirst(Tail(s), c)

Contains(s, c) == \E i \in 1..Len(s) : s[i] = c

ExpectedPath(r) ==
    ItemType_get_url(r.item_type)
        \o (IF r.id # None THEN <<"/">> \o r.id[1] ELSE <<>>)
        \o (IF r.secondary_item_type # None
            THEN <<"/">> \o ItemType_get_url(r.secondary_item_type[1])
            ELSE <<>>)

\* C8 as written: the path is the text before any '?', for every built
\* Request.
C8_PathIsTextBeforeQuestionMark ==
    pc = "url" =>
        BeforeFirst(Unwrap(url), "?") = ExpectedPath(BuildResult.val)

\* C8 as amended: the path is the text before any '?', for every built
\* Request whose id contains no '?'.
C8_PathWhenIdHasNoQuestionMark ==
    (pc = "url"
        /\ (BuildResult.val.id # None
                => ~Contains(BuildResult.val.id[1], "?")))
    => BeforeFirst(Unwrap(url), "?") = ExpectedPath(BuildResult.val)

C8_Witness ==
    /\ pc = "url"
    /\ BuildResult.val.id # None
    /\ BuildResult.val.id[1] # <<>>
    /\ ~Contains(BuildResult.val.id[1], "?")
    /\ BuildResult.val.secondary_item_type # None
    /\ BuildResult.val.filter # None
    /\ Contains(Unwrap(url), "?")

(***************************************************************************)
(* C9: in the query part of get_url the fragments appear in the fixed      *)
(* order sort, filter, pagination, joined by '&', whichever subset of the  *)
(* three is set.                                                           *)
(***************************************************************************)
ExpectedQuery(r) ==
    LET s == IF r.sort # None THEN Sort_get_url(r.sort[1]) ELSE <<>>
        f == IF r.filter # None THEN Filter_get_url(r.filter[1]) ELSE <<>>
        p == IF r.pagination # None
             THEN Pagination_get_url(r.pagination[1]) ELSE <<>>
        sf == IF r.sort # None /\ r.filter # None THEN <<"&">> ELSE <<>>
        fp == IF (r.sort # None \/ r.filter # None) /\ r.pagination # None
              THEN <<"&">> ELSE <<>>
    IN  IF r.sort = None /\ r.filter = None /\ r.pagination = None
        THEN <<>>
        ELSE <<"?">> \o s \o sf \o f \o fp \o p

C9_FragmentsInFixedOrder ==
    pc = "url" =>
        Unwrap(url)
            = ExpectedPath(BuildResult.val) \o ExpectedQuery(BuildResult.val)

C9_Witness ==
    /\ pc = "url"
    /\ BuildResult.val.sort # None
    /\ BuildResult.val.filter # None
    /\ BuildResult.val.pagination # None
    /\ BuildResult.val.pagination[1].limit # 0

(***************************************************************************)
(* C10: builder construction is order-independent: setter calls (each at   *)
(* most once) applied in any order to RequestBuilder::new(t) give the same *)
(* build() result and the same get_url string as the same calls applied in *)
(* the order id, secondary_item_type, sort, filter, pagination.            *)
(***************************************************************************)
InCanonicalOrder(a) ==
    LET b0 == RequestBuilder_new(a.item_type)
        b1 == IF a.id # None THEN RequestBuilder_id(b0, a.id[1]) ELSE b0
        b2 == IF a.secondary_item_type # None
              THEN RequestBuilder_secondary_item_type(
                        b1, a.secondary_item_type[1])
              ELSE b1
        b3 == IF a.sort # None THEN RequestBuilder_sort(b2, a.sort[1]) ELSE b2
        b4 == IF a.filter # None
              THEN RequestBuilder_filter(b3, a.filter[1]) ELSE b3
    IN  IF a.pagination # None
        THEN RequestBuilder_pagination(b4, a.pagination[1]) ELSE b4

C10_OrderIndependent ==
    (Built /\ ~repeated) =>
        /\ BuildResult = RequestBuilder_build(InCanonicalOrder(args))
        /\ pc = "url" =>
              Unwrap(url) = Request_get_url(InCanonicalOrder(args))

C10_Witness ==
    /\ pc = "url"
    /\ outOfOrder
    /\ ~repeated
    /\ \A s \in Setters : args[s] # None

(***************************************************************************)
(* C11: the query string holds the non-empty fragments only.               *)
(***************************************************************************)
NonEmptyFragments(r) ==
    LET s == IF r.sort # None THEN <<Sort_get_url(r.sort[1])>> ELSE <<>>
        f == IF r.filter # None THEN <<Filter_get_url(r.filter[1])>> ELSE <<>>
        p == IF r.pagination # None
                  /\ Pagination_get_url(r.pagination[1]) # <<>>
             THEN <<Pagination_get_url(r.pagination[1])>> ELSE <<>>
    IN  s \o f \o p

\* C11: get_url appends '?' exactly when sort, filter or pagination
\* serializes to a non-empty fragment, and joins the non-empty fragments
\* only: a pagination of zeros adds neither a '?' nor an '&'.
C11_OnlyNonEmptyFragmentsJoined ==
    pc = "url" =>
        Unwrap(url)
            = ExpectedPath(BuildResult.val)
                \o (IF NonEmptyFragments(BuildResult.val) = <<>>
                    THEN <<>>
                    ELSE <<"?">>
                           \o Join(NonEmptyFragments(BuildResult.val),
                                   <<"&">>))

(***************************************************************************)
(* The serialization and classification functions called on their own:     *)
(* one call of one function on one argument.                               *)
(***************************************************************************)

\* impl From<&str> for ItemType; an unknown segment panics.
Panic == "panic"
ItemType_from_str(value) ==
    CASE value = <<"book">> -> "Book"
      [] value = <<"movie">> -> "Movie"
      [] value = <<"quote">> -> "Quote"
      [] value = <<"character">> -> "Character"
      [] value = <<"chapter">> -> "Chapter"
      [] OTHER -> Panic

MaxPaginationValue == 2
MaxCallValues == 2

\* Values of limit, offset and page: zero, small numbers, and numbers of
\* several digits.
CallPaginationValues == (0 .. MaxPaginationValue) \cup {10, 100}
CallPaginations ==
    {Pagination_new(l, o, p) : l \in CallPaginationValues,
                               o \in CallPaginationValues,
                               p \in CallPaginationValues}

\* Filter values, among them one that holds the separator itself.
CallValueStrings == {<<"a">>, <<"b">>, <<"x", ",", "y">>}
CallValueLists == SeqsUpTo(CallValueStrings, MaxCallValues)
CallFilters ==
    {Filter_Match(a, o, v) : a \in Attribute, o \in Operator,
                             v \in CallValueLists}
    \cup {Filter_Exists(a, e) : a \in Attribute, e \in BOOLEAN}
CallSorts == {Sort_new(o, a) : o \in SortOrder, a \in Attribute}

\* Path segments handed to ItemType::from: the segments of the five types
\* and one that is none of them.
CallSegments == {ItemType_get_url(t) : t \in ItemType} \cup {<<"books">>}

CallInputs ==
    {[fn |-> "Pagination::get_url", arg |-> p] : p \in CallPaginations}
    \cup {[fn |-> "Filter::get_url", arg |-> f] : f \in CallFilters}
    \cup {[fn |-> "Sort::get_url", arg |-> s] : s \in CallSorts}
    \cup {[fn |-> "ItemType::from(Attribute)", arg |-> a] : a \in Attribute}
    \cup {[fn |-> "Filter::get_item_type", arg |-> f] : f \in CallFilters}
    \cup {[fn |-> "Sort::get_item_type", arg |-> s] : s \in CallSorts}
    \cup {[fn |-> "ItemType::get_url", arg |-> t] : t \in ItemType}
    \cup {[fn |-> "ItemType::from(&str)", arg |-> s] : s \in CallSegments}
    \cup {[fn |-> "Attribute::get_url", arg |-> a] : a \in Attribute}

InitCall ==
    /\ \E c \in CallInputs : call = [fn |-> c.fn, arg |-> c.arg, ret |-> None]
    /\ pc = "call"
    /\ builder = None
    /\ result = None
    /\ url = None
    /\ args = None
    /\ outOfOrder = FALSE
    /\ repeated = FALSE
    /\ client = None

\* A call of fn is pending.
Calling(fn) == pc = "call" /\ call.fn = fn /\ call.ret = None

\* The pending call returns v.
Return(v) ==
    /\ call' = [call EXCEPT !.ret = Some(v)]
    /\ UNCHANGED <<pc, builder, result, url, args, outOfOrder, repeated,
                   client>>

CallPaginationGetUrl ==
    /\ Calling("Pagination::get_url")
    /\ Return(Pagination_get_url(call.arg))

CallFilterGetUrl ==
    /\ Calling("Filter::get_url")
    /\ Return(Filter_get_url(call.arg))

CallSortGetUrl ==
    /\ Calling("Sort::get_url")
    /\ Return(Sort_get_url(call.arg))

CallItemTypeFromAttribute ==
    /\ Calling("ItemType::from(Attribute)")
    /\ Return(ItemTypeFromAttribute(call.arg))

CallFilterGetItemType ==
    /\ Calling("Filter::get_item_type")
    /\ Return(Filter_get_item_type(call.arg))

CallSortGetItemType ==
    /\ Calling("Sort::get_item_type")
    /\ Return(Sort_get_item_type(call.arg))

CallItemTypeGetUrl ==
    /\ Calling("ItemType::get_url")
    /\ Return(ItemType_get_url(call.arg))

CallItemTypeFromStr ==
    /\ Calling("ItemType::from(&str)")
    /\ Return(ItemType_from_str(call.arg))

CallAttributeGetUrl ==
    /\ Calling("Attribute::get_url")
    /\ Return(Attribute_get_url(call.arg))

NextCall ==
    \/ CallPaginationGetUrl
    \/ CallFilterGetUrl
    \/ CallSortGetUrl
    \/ CallItemTypeFromAttribute
    \/ CallFilterGetItemType
    \/ CallSortGetItemType
    \/ CallItemTypeGetUrl
    \/ CallItemTypeFromStr
    \/ CallAttributeGetUrl

SpecCall == InitCall /\ [][NextCall]_vars

\* The call of fn has returned.
Returned(fn) == pc = "call" /\ call.fn = fn /\ call.ret # None

(***************************************************************************)
(* C12: the serialization of a pagination.                                 *)
(***************************************************************************)
\* 'key=<n>' when n is not zero, nothing otherwise.
KeyValue(key, n) == IF n = 0 THEN <<>> ELSE <<key, "=">> \o FormatU32(n)

\* '&' between two fragments that are both present.
Amp(left, right) == IF left # <<>> /\ right # <<>> THEN <<"&">> ELSE <<>>

ExpectedPagination(p) ==
    LET l == KeyValue("limit", p.limit)
        o == KeyValue("offset", p.offset)
        g == KeyValue("page", p.page)
    IN  l \o Amp(l, o \o g) \o o \o Amp(o, g) \o g

\* C12: Pagination::get_url returns the fragments 'limit=<n>', 'offset=<n>',
\* 'page=<n>' of the non-zero fields, in that order, joined by '&', and the
\* empty string when all three fields are zero.
C12_PaginationFragments ==
    Returned("Pagination::get_url") =>
        /\ call.ret[1] = ExpectedPagination(call.arg)
        /\ (call.ret[1] = <<>>)
              = (call.arg.limit = 0 /\ call.arg.offset = 0 /\ call.arg.page = 0)

C12_Witness ==
    /\ Returned("Pagination::get_url")
    /\ call.arg = Pagination_new(10, 2, 100)
    /\ call.ret[1] = <<"limit", "=", "1", "0", "&", "offset", "=", "2", "&",
                       "page", "=", "1", "0", "0">>

(***************************************************************************)
(* C13: the serialization of a Match filter.                               *)
(***************************************************************************)
OperatorSymbol ==
    [Eq |-> <<"=">>, Ne |-> <<"!", "=">>, Gt |-> <<">">>, Lt |-> <<"<">>,
     Gte |-> <<">", "=">>, Lte |-> <<"<", "=">>]

\* The values as given, a ',' before every value but the first.
RECURSIVE CommaSeparated(_)
CommaSeparated(values) ==
    IF values = <<>> THEN <<>>
    ELSE LET n == Len(values)
         IN  CommaSeparated(SubSeq(values, 1, n - 1))
                \o (IF n > 1 THEN <<",">> ELSE <<>>) \o values[n]

\* C13: Filter::Match(attribute, operator, values) serializes to the
\* attribute's wire name, then the operator's symbol (=, !=, >, <, >=, <=),
\* then the values in the given order joined by ',', with no escaping.
C13_MatchSerialization ==
    (Returned("Filter::get_url") /\ call.arg.variant = "Match") =>
        call.ret[1]
            = Attribute_get_url(call.arg.attribute)
                \o OperatorSymbol[call.arg.operation]
                \o CommaSeparated(call.arg.values)

C13_Witness ==
    /\ Returned("Filter::get_url")
    /\ call.arg
         = Filter_Match([variant |-> "Book", inner |-> "Name"], "Gte",
                        <<<<"x", ",", "y">>, <<"a">>>>)
    /\ call.ret[1] = <<"name", ">", "=", "x", ",", "y", ",", "a">>

(***************************************************************************)
(* C14: the serialization of an Exists filter.                             *)
(***************************************************************************)
\* C14: Filter::Exists(attribute, present) serializes to the attribute's
\* wire name when present is true and to '!' followed by the wire name when
\* it is false.
C14_ExistsSerialization ==
    (Returned("Filter::get_url") /\ call.arg.variant = "Exists") =>
        /\ call.arg.exists
              => call.ret[1] = Attribute_get_url(call.arg.attribute)
        /\ ~call.arg.exists
              => call.ret[1] = <<"!">> \o Attribute_get_url(call.arg.attribute)

C14_Witness ==
    /\ Returned("Filter::get_url")
    /\ call.arg = Filter_Exists([variant |-> "Quote", inner |-> "Dialog"], FALSE)
    /\ call.ret[1] = <<"!", "dialog">>

(***************************************************************************)
(* C15: the serialization of a sort.                                       *)
(***************************************************************************)
\* C15: Sort::get_url returns 'sort=<wire name>:asc' for Ascending and
\* 'sort=<wire name>:desc' for Descending.
C15_SortSerialization ==
    Returned("Sort::get_url") =>
        /\ call.arg.sort_type = "Ascending"
              => call.ret[1]
                    = <<"sort", "=">> \o Attribute_get_url(call.arg.sort_by)
                        \o <<":", "asc">>
        /\ call.arg.sort_type = "Descending"
              => call.ret[1]
                    = <<"sort", "=">> \o Attribute_get_url(call.arg.sort_by)
                        \o <<":", "desc">>

C15_Witness ==
    /\ Returned("Sort::get_url")
    /\ call.arg = Sort_new("Descending", [variant |-> "Book", inner |-> "Name"])
    /\ call.ret[1] = <<"sort", "=", "name", ":", "desc">>

(***************************************************************************)
(* client.rs: one call of the Client, either Client::get on a built        *)
(* Request or one of the typed getters.  The server's answer is an input:  *)
(* the fetch fails (no answer, or an answer with an error status) or       *)
(* returns a text, and the text is described by the record types it        *)
(* deserializes as and by its documents.                                   *)
(***************************************************************************)

\* The fields a builder can hold before build() is called on it.
ClientIds == {None, Some(<<"1">>)}
ClientSorts ==
    {None, Some(Sort_new("Ascending", [variant |-> "Book", inner |-> "Name"])),
     Some(Sort_new("Descending", [variant |-> "Quote", inner |-> "Dialog"]))}
ClientPaginations ==
    {None, Some(Pagination_new(10, 0, 0)), Some(Pagination_new(0, 0, 2))}
ClientBuilders ==
    [item_type : ItemType,
     id : ClientIds,
     secondary_item_type : {None} \cup {Some(t) : t \in ItemType},
     sort : ClientSorts,
     filter : {None},
     pagination : ClientPaginations]

\* The Requests that build() returns.
ClientRequests ==
    {RequestBuilder_build(b).val :
        b \in {x \in ClientBuilders : RequestBuilder_build(x).tag = "Ok"}}

\* Response texts: the record types T for which the text deserializes as
\* Response<T>, and the documents it holds.
ResponseTexts ==
    {[parses_as |-> s, docs |-> d] :
        s \in {{}} \cup {{t} : t \in ItemType},
        d \in {<<>>, <<"doc1", "doc2">>}}

\* What Requester::get meets: send() fails, error_for_status() fails on a
\* status that is not a success, or the text of the answer is read.
FetchOutcomes ==
    {[kind |-> "network", text |-> None], [kind |-> "status", text |-> None]}
    \cup {[kind |-> "text", text |-> Some(t)] : t \in ResponseTexts}

RECURSIVE MapItemFrom(_, _)
\* Variant of the conversion that collects the items in reverse.
MapItemFrom_Reversed(T, docs) ==
    [i \in 1..Len(docs) |-> [variant |-> T, doc |-> docs[Len(docs) + 1 - i]]]

\* response.docs.into_iter().map(Item::from).collect()
MapItemFrom(T, docs) ==
    IF docs = <<>> THEN <<>>
    ELSE <<[variant |-> T, doc |-> Head(docs)]>> \o MapItemFrom(T, Tail(docs))

\* A call that has not started: nothing fetched, nothing decoded.
ClientCall(op, request, id, phase, T) ==
    [op |-> op, request |-> request, id |-> id, phase |-> phase, T |-> T,
     url |-> None, fetches |-> 0, fetch |-> None, decodes |-> 0,
     text |-> None, response |-> None, result |-> None]

InitClient ==
    /\ \E r \in ClientRequests :
          client = ClientCall("get", r, None, "get", None)
    /\ pc = "client"
    /\ builder = None
    /\ result = None
    /\ url = None
    /\ args = None
    /\ outOfOrder = FALSE
    /\ repeated = FALSE
    /\ call = None

ClientUnchanged ==
    UNCHANGED <<pc, builder, result, url, args, outOfOrder, repeated, call>>

\* A Requester::get whose caller tries once more after a first failure.
Requester_get_RetryOnce(c, u, outcome, next) ==
    IF outcome.kind # "text" /\ c.fetches = 0
    THEN [c EXCEPT !.url = Some(u), !.fetches = @ + 1]
    ELSE [c EXCEPT
            !.url = Some(u),
            !.fetches = @ + 1,
            !.fetch = Some(outcome.kind),
            !.text = outcome.text,
            !.result = IF outcome.kind = "text" THEN None
                       ELSE Some(Err("Reqwest")),
            !.phase = IF outcome.kind = "text" THEN next ELSE "returned"]

\* Requester::get(url) with the given outcome; an error is returned to the
\* caller by the `?` of the calling function, converted by
\* From<reqwest::Error> for Error.
Requester_get(c, u, outcome, next) ==
    [c EXCEPT
        !.url = Some(u),
        !.fetches = @ + 1,
        !.fetch = Some(outcome.kind),
        !.text = outcome.text,
        !.result = IF outcome.kind = "text" THEN None
                   ELSE Some(Err("Reqwest")),
        !.phase = IF outcome.kind = "text" THEN next ELSE "returned"]

\* A decoder that answers a text it cannot decode with an empty collection.
Serde_from_str_EmptyOnError(c, next) ==
    IF Unwrap(c.T) \in Unwrap(c.text).parses_as
    THEN [c EXCEPT !.decodes = @ + 1,
                   !.response = Some(Unwrap(c.text).docs),
                   !.phase = next]
    ELSE [c EXCEPT !.decodes = @ + 1,
                   !.response = Some(<<>>),
                   !.phase = next]

\* serde_json::from_str::<Response<T>>(&response).map_err(Error::from)?
Serde_from_str(c, next) ==
    IF Unwrap(c.T) \in Unwrap(c.text).parses_as
    THEN [c EXCEPT !.decodes = @ + 1,
                   !.response = Some(Unwrap(c.text).docs),
                   !.phase = next]
    ELSE [c EXCEPT !.decodes = @ + 1,
                   !.result = Some(Err("SerdeJson")),
                   !.phase = "returned"]

\* Client::get: the match on request.get_item_type() picks request::<T>.
ClientGet ==
    /\ client.phase = "get"
    /\ client' =
          [client EXCEPT
              !.T = Some(Request_get_item_type(client.request)),
              !.phase = "request"]
    /\ ClientUnchanged

\* Requester::get_from_request: the URL of the request is fetched once.
RequesterGetFromRequest ==
    /\ client.phase = "request"
    /\ \E outcome \in FetchOutcomes :
          client' = Requester_get(client, Request_get_url(client.request),
                                  outcome, "from_str")
    /\ ClientUnchanged

\* Client::request: the text is decoded as Response<T>.
SerdeFromStr ==
    /\ client.phase = "from_str"
    /\ client' = Serde_from_str(client, "into")
    /\ ClientUnchanged

\* Ok(response.into())
ResponseInto ==
    /\ client.phase = "into"
    /\ client' =
          [client EXCEPT
             !.result = Some(Ok(MapItemFrom(Unwrap(client.T),
                                            Unwrap(client.response)))),
             !.phase = "returned"]
    /\ ClientUnchanged

NextClient ==
    \/ ClientGet
    \/ RequesterGetFromRequest
    \/ SerdeFromStr
    \/ ResponseInto

SpecClient == InitClient /\ [][NextClient]_vars

(***************************************************************************)
(* C16: Client::get decodes by the effective resource type.                *)
(***************************************************************************)
\* C16: the effective resource type of a Request is the secondary type when
\* one is set and the primary type otherwise, and Client::get selects the
\* response decoder by exactly that type, never by the primary type when a
\* secondary type is set.
C16_DecoderIsEffectiveType ==
    (pc = "client" /\ client.T # None) =>
        /\ client.request.secondary_item_type # None
              => client.T[1] = client.request.secondary_item_type[1]
        /\ client.request.secondary_item_type = None
              => client.T[1] = client.request.item_type

C16_Witness ==
    /\ pc = "client"
    /\ client.phase = "returned"
    /\ client.result # None
    /\ client.result[1].tag = "Ok"
    /\ client.request.item_type = "Character"
    /\ client.request.secondary_item_type = Some("Quote")
    /\ client.T = Some("Quote")
    /\ client.result[1].val # <<>>

(***************************************************************************)
(* C17: the owning resource type.                                          *)
(***************************************************************************)
\* C17: the owning-type function is total and maps every attribute to the
\* resource type of its outer variant, for all five types, and the owning
\* type of a filter or of a sort is the owning type of the attribute it
\* holds.
C17_OwningTypeIsOuterVariant ==
    /\ Returned("ItemType::from(Attribute)")
          => /\ call.ret[1] \in ItemType
             /\ call.ret[1] = OwningType(call.arg)
    /\ Returned("Filter::get_item_type")
          => call.ret[1] = OwningType(call.arg.attribute)
    /\ Returned("Sort::get_item_type")
          => call.ret[1] = OwningType(call.arg.sort_by)

C17_Witness ==
    /\ Returned("Filter::get_item_type")
    /\ call.arg.variant = "Exists"
    /\ call.arg.attribute = [variant |-> "Chapter", inner |-> "ChapterName"]
    /\ call.ret[1] = "Chapter"

(***************************************************************************)
(* C18: the wire segments of the resource types.                           *)
(***************************************************************************)
WireSegment ==
    [Book |-> <<"book">>, Movie |-> <<"movie">>, Quote |-> <<"quote">>,
     Character |-> <<"character">>, Chapter |-> <<"chapter">>]

\* C18: the five resource types map to the five pairwise distinct wire
\* segments book, movie, quote, character and chapter, and ItemType::from
\* inverts the mapping: ItemType::from(t.get_url()) is t for every type t.
C18_SegmentsDistinctAndInverted ==
    /\ Returned("ItemType::get_url")
          => /\ call.ret[1] = WireSegment[call.arg]
             /\ \A t \in ItemType \ {call.arg} :
                   ItemType_get_url(t) # call.ret[1]
    /\ Returned("ItemType::from(&str)")
          => \A t \in ItemType :
                call.arg = ItemType_get_url(t) => call.ret[1] = t

C18_Witness ==
    /\ Returned("ItemType::from(&str)")
    /\ call.arg = ItemType_get_url("Chapter")
    /\ call.arg = <<"chapter">>
    /\ call.ret[1] = "Chapter"

(***************************************************************************)
(* Two built Requests serialized one after the other, to compare their     *)
(* URLs.  Ids and filter values are strings that may hold the characters   *)
(* the URL is assembled with.                                              *)
(***************************************************************************)
QuoteDialog == [variant |-> "Quote", inner |-> "Dialog"]

PairIds ==
    {None, Some(<<"1">>), Some(<<"2">>), Some(<<"1", "/", "quote">>),
     Some(<<"1", "?">>)}
PairValueLists ==
    {<<>>, <<<<"a">>>>, <<<<"b">>>>, <<<<"a">>, <<"b">>>>,
     <<<<"a", ",", "b">>>>, <<<<"=", "a">>>>, <<<<"a", "&">>>>}
PairFilters ==
    {Filter_Match(QuoteDialog, o, v) : o \in {"Gt", "Gte"},
                                      v \in PairValueLists}
    \cup {Filter_Exists(QuoteDialog, e) : e \in BOOLEAN}
PairPaginations ==
    {Pagination_new(0, 0, 0), Pagination_new(10, 0, 0), Pagination_new(0, 10, 0)}

\* Builders that differ in their path fields.
PairPathBuilders ==
    [item_type : {"Character", "Quote"},
     id : PairIds,
     secondary_item_type : {None, Some("Quote")},
     sort : {None},
     filter : {None},
     pagination : {None, Some(Pagination_new(0, 0, 0))}]

\* Builders that differ in their query fields.
PairQueryBuilders ==
    [item_type : {"Quote"},
     id : {None},
     secondary_item_type : {None},
     sort : {None} \cup {Some(Sort_new(o, QuoteDialog)) : o \in SortOrder},
     filter : {None} \cup {Some(f) : f \in PairFilters},
     pagination : {None} \cup {Some(p) : p \in PairPaginations}]

PairRequests ==
    {RequestBuilder_build(b).val :
        b \in {x \in PairPathBuilders \cup PairQueryBuilders :
                  RequestBuilder_build(x).tag = "Ok"}}

InitPair ==
    /\ \E r1 \in PairRequests, r2 \in PairRequests :
          call = [fn |-> "Request::get_url", arg |-> <<r1, r2>>,
                  ret |-> <<None, None>>]
    /\ pc = "pair"
    /\ builder = None
    /\ result = None
    /\ url = None
    /\ args = None
    /\ outOfOrder = FALSE
    /\ repeated = FALSE
    /\ client = None

\* get_url() of the i-th Request of the pair.
GetUrlOf(i) ==
    /\ pc = "pair"
    /\ call.ret[i] = None
    /\ call' = [call EXCEPT !.ret[i] = Some(Request_get_url(call.arg[i]))]
    /\ UNCHANGED <<pc, builder, result, url, args, outOfOrder, repeated,
                   client>>

GetUrlFirst ==
    /\ call.ret[2] = None
    /\ GetUrlOf(1)

GetUrlSecond ==
    /\ call.ret[1] # None
    /\ GetUrlOf(2)

NextPair ==
    \/ GetUrlFirst
    \/ GetUrlSecond

SpecPair == InitPair /\ [][NextPair]_vars

(***************************************************************************)
(* C19: distinct Requests, distinct URLs.                                  *)
(***************************************************************************)
\* The strings a Request carries: its id and its filter values.
StringsOf(r) ==
    (IF r.id # None THEN {r.id[1]} ELSE {})
    \cup (IF r.filter # None /\ r.filter[1].variant = "Match"
          THEN {r.filter[1].values[i] : i \in DOMAIN r.filter[1].values}
          ELSE {})

\* Every string of r is non-empty and holds none of the given characters.
Without(r, chars) ==
    \A s \in StringsOf(r) :
        s # <<>> /\ \A i \in DOMAIN s : s[i] \notin chars

\* limit, offset and page of r; a Request without pagination has none.
PaginationValues(r) ==
    IF r.pagination = None THEN <<0, 0, 0>>
    ELSE <<r.pagination[1].limit, r.pagination[1].offset, r.pagination[1].page>>

\* The two Requests differ in the primary type, the id, the secondary type,
\* the sort, the filter or the non-zero pagination values.
Differ(r1, r2) ==
    \/ r1.item_type # r2.item_type
    \/ r1.id # r2.id
    \/ r1.secondary_item_type # r2.secondary_item_type
    \/ r1.sort # r2.sort
    \/ r1.filter # r2.filter
    \/ PaginationValues(r1) # PaginationValues(r2)

BothSerialized == pc = "pair" /\ call.ret[1] # None /\ call.ret[2] # None

\* C19 as written: two built Requests that differ in any field serialize to
\* different URLs, for ids and filter values that may hold ',', '=', '/'
\* and '&'.
C19_DistinctRequestsDistinctUrls ==
    (BothSerialized
        /\ Differ(call.arg[1], call.arg[2])
        /\ Without(call.arg[1], {"?"})
        /\ Without(call.arg[2], {"?"}))
    => call.ret[1] # call.ret[2]

\* C19 as amended: two built Requests that differ in any field serialize to
\* different URLs, for ids and filter values that are non-empty and hold
\* none of ',', '=', '/', '&' and '?'.
C19_DistinctUrlsWithoutDelimiters ==
    (BothSerialized
        /\ Differ(call.arg[1], call.arg[2])
        /\ Without(call.arg[1], {",", "=", "/", "&", "?"})
        /\ Without(call.arg[2], {",", "=", "/", "&", "?"}))
    => call.ret[1] # call.ret[2]

C19_Witness ==
    /\ BothSerialized
    /\ call.arg[1].filter
         = Some(Filter_Match(QuoteDialog, "Gte", <<<<"a">>, <<"b">>>>))
    /\ call.arg[2].filter = Some(Filter_Match(QuoteDialog, "Gt", <<<<"a">>>>))
    /\ call.arg[1].sort = call.arg[2].sort
    /\ call.arg[1].sort # None
    /\ call.arg[1].pagination = Some(Pagination_new(0, 0, 0))
    /\ call.arg[2].pagination = None
    /\ call.ret[1] # call.ret[2]

(***************************************************************************)
(* C20: the setters never fail, build() is the only place an error arises, *)
(* and get_url() never fails.                                              *)
(***************************************************************************)
\* C20: every setter call is accepted, whatever its argument and whatever
\* was called before: the builder holds exactly the last argument of each
\* setter, a setter can always be called and no result exists before
\* build(); build() always returns, and get_url() on a built Request always
\* returns a string.
C20_SettersNeverFail ==
    /\ builder.item_type = args.item_type
    /\ \A s \in Setters : builder[s] = args[s]
    /\ pc = "builder"
          => /\ result = None
             /\ ENABLED CallId
             /\ ENABLED CallSecondaryItemType
             /\ ENABLED CallSort
             /\ ENABLED CallFilter
             /\ ENABLED CallPagination
             /\ ENABLED CallBuild
    /\ BuiltOk => (pc = "built" => ENABLED CallGetUrl)
    /\ pc = "url" => Unwrap(url) \in Seq(STRING)

C20_Witness ==
    /\ BuiltErr
    /\ args.secondary_item_type # None
    /\ args.id = None
    /\ args.sort # None
    /\ Sort_get_item_type(args.sort[1]) # args.secondary_item_type[1]
    /\ builder.sort = args.sort
    /\ builder.secondary_item_type = args.secondary_item_type

(***************************************************************************)
(* item/object.rs: the JSON keys of the records the decoder reads, after   *)
(* the serde renames.                                                      *)
(***************************************************************************)
RecordKeys ==
    [Book |-> {<<"_id">>, <<"name">>},
     Movie |-> {<<"_id">>, <<"name">>, <<"runtimeInMinutes">>,
                <<"budgetInMillions">>, <<"boxOfficeRevenueInMillions">>,
                <<"academyAwardNominations">>, <<"academyAwardWins">>,
                <<"rottenTomatoesScore">>},
     Quote |-> {<<"_id">>, <<"dialog">>, <<"movie">>, <<"character">>,
                <<"id">>},
     Character |-> {<<"_id">>, <<"height">>, <<"gender">>, <<"birth">>,
                    <<"spouse">>, <<"death">>, <<"realm">>, <<"hair">>,
                    <<"name">>, <<"wikiUrl">>},
     Chapter |-> {<<"_id">>, <<"chapterName">>, <<"book">>}]

\* C21: for each resource type, the wire names of the type's attributes are
\* exactly the JSON keys of the type's record: every attribute names a key
\* of the record, and every key of the record has an attribute.
C21_WireNamesAreRecordKeys ==
    Returned("Attribute::get_url") =>
        /\ call.ret[1] \in RecordKeys[call.arg.variant]
        /\ \A k \in RecordKeys[call.arg.variant] :
              \E a \in Attribute :
                  a.variant = call.arg.variant /\ Attribute_get_url(a) = k

(***************************************************************************)
(* client.rs: the typed getters.  Each formats its URL, calls              *)
(* request_with_url::<T> and returns the contents, or the last document    *)
(* for a lookup by id.                                                     *)
(***************************************************************************)
GetAll ==
    {"get_books", "get_movies", "get_quotes", "get_characters", "get_chapters"}
GetById ==
    {"get_book_by_id", "get_movie_by_id", "get_quote_by_id",
     "get_character_by_id", "get_chapter_by_id"}
GetFrom ==
    {"get_chapters_from_book", "get_quotes_from_movie",
     "get_quotes_from_character"}
Getters == GetAll \cup GetById \cup GetFrom

\* The record type T of request_with_url::<T>.
Getter_T(op) ==
    CASE op \in {"get_books", "get_book_by_id"} -> "Book"
      [] op \in {"get_movies", "get_movie_by_id"} -> "Movie"
      [] op \in {"get_quotes", "get_quote_by_id", "get_quotes_from_movie",
                 "get_quotes_from_character"} -> "Quote"
      [] op \in {"get_characters", "get_character_by_id"} -> "Character"
      [] op \in {"get_chapters", "get_chapter_by_id",
                 "get_chapters_from_book"} -> "Chapter"

\* Variant of the getters in which the chapters of a book are requested
\* with the two segments exchanged.
Getter_url_ChildFirst(op, id) ==
    CASE op = "get_books" -> <<"book">>
      [] op = "get_movies" -> <<"movie">>
      [] op = "get_quotes" -> <<"quote", "?", "limit", "=", "2", "4", "0", "0">>
      [] op = "get_characters" -> <<"character">>
      [] op = "get_chapters" -> <<"chapter">>
      [] op = "get_book_by_id" -> <<"book", "/">> \o id
      [] op = "get_movie_by_id" -> <<"movie", "/">> \o id
      [] op = "get_quote_by_id" -> <<"quote", "/">> \o id
      [] op = "get_character_by_id" -> <<"character", "/">> \o id
      [] op = "get_chapter_by_id" -> <<"chapter", "/">> \o id
      [] op = "get_chapters_from_book" ->
            <<"chapter", "/">> \o id \o <<"/", "book">>
      [] op = "get_quotes_from_movie" ->
            <<"movie", "/">> \o id \o <<"/", "quote">>
      [] op = "get_quotes_from_character" ->
            <<"character", "/">> \o id \o <<"/", "quote">>

\* The URL literal or format!() of each getter.
Getter_url(op, id) ==
    CASE op = "get_books" -> <<"book">>
      [] op = "get_movies" -> <<"movie">>
      [] op = "get_quotes" -> <<"quote", "?", "limit", "=", "2", "4", "0", "0">>
      [] op = "get_characters" -> <<"character">>
      [] op = "get_chapters" -> <<"chapter">>
      [] op = "get_book_by_id" -> <<"book", "/">> \o id
      [] op = "get_movie_by_id" -> <<"movie", "/">> \o id
      [] op = "get_quote_by_id" -> <<"quote", "/">> \o id
      [] op = "get_character_by_id" -> <<"character", "/">> \o id
      [] op = "get_chapter_by_id" -> <<"chapter", "/">> \o id
      [] op = "get_chapters_from_book" ->
            <<"book", "/">> \o id \o <<"/", "chapter">>
      [] op = "get_quotes_from_movie" ->
            <<"movie", "/">> \o id \o <<"/", "quote">>
      [] op = "get_quotes_from_character" ->
            <<"character", "/">> \o id \o <<"/", "quote">>

\* Ids handed to the getters.
GetterIds == {<<"1">>, <<"5", "c", "d">>}

InitGetter ==
    /\ \E op \in Getters :
          \E id \in IF op \in GetAll THEN {None}
                    ELSE {Some(i) : i \in GetterIds} :
              client = ClientCall(op, None, id, "request_with_url",
                                  Some(Getter_T(op)))
    /\ pc = "getter"
    /\ builder = None
    /\ result = None
    /\ url = None
    /\ args = None
    /\ outOfOrder = FALSE
    /\ repeated = FALSE
    /\ call = None

\* Client::request_with_url: self.requester.get(url).await?
RequestWithUrlGet ==
    /\ client.phase = "request_with_url"
    /\ \E outcome \in FetchOutcomes :
          client' =
             Requester_get(client,
                           Getter_url(client.op,
                                      IF client.id = None THEN <<>>
                                      ELSE Unwrap(client.id)),
                           outcome, "from_str_with_url")
    /\ ClientUnchanged

\* Client::request_with_url: the text is decoded as Response<T>.
RequestWithUrlFromStr ==
    /\ client.phase = "from_str_with_url"
    /\ client' = Serde_from_str(client,
                                IF client.op \in GetById THEN "pop"
                                ELSE "get_contents")
    /\ ClientUnchanged

\* Ok(...get_contents()): the documents as decoded.
GetContents ==
    /\ client.phase = "get_contents"
    /\ client' = [client EXCEPT !.result = Some(Ok(Unwrap(client.response))),
                                !.phase = "returned"]
    /\ ClientUnchanged

\* A lookup that answers an empty collection with a default document.
PopOkOr_DefaultItem ==
    /\ client.phase = "pop"
    /\ client' =
          [client EXCEPT
             !.result =
                 IF Unwrap(client.response) = <<>>
                 THEN Some(Ok("default"))
                 ELSE Some(Ok(Unwrap(client.response)
                                 [Len(Unwrap(client.response))])),
             !.phase = "returned"]
    /\ ClientUnchanged

\* get_contents(), then pop().ok_or(Error::Other(..)): the last document,
\* or an error when there is none.
PopOkOr ==
    /\ client.phase = "pop"
    /\ client' =
          [client EXCEPT
             !.result =
                 IF Unwrap(client.response) = <<>>
                 THEN Some(Err("Other"))
                 ELSE Some(Ok(Unwrap(client.response)
                                 [Len(Unwrap(client.response))])),
             !.phase = "returned"]
    /\ ClientUnchanged

InitClientOps == InitClient \/ InitGetter

NextClientOps ==
    \/ ClientGet
    \/ RequesterGetFromRequest
    \/ SerdeFromStr
    \/ ResponseInto
    \/ RequestWithUrlGet
    \/ RequestWithUrlFromStr
    \/ GetContents
    \/ PopOkOr

SpecClientOps == InitClientOps /\ [][NextClientOps]_vars

(***************************************************************************)
(* C22: a lookup by id that finds nothing.                                 *)
(***************************************************************************)
\* A typed getter by id has returned after a successful fetch and a
\* successful decode of an empty collection.
EmptyLookupReturned ==
    /\ pc = "getter"
    /\ client.op \in GetById
    /\ client.phase = "returned"
    /\ client.response = Some(<<>>)

\* C22 as written: a lookup by id whose fetch and decode succeed but whose
\* decoded collection is empty returns a NotFound error.
C22_EmptyLookupIsNotFound ==
    EmptyLookupReturned => client.result = Some(Err("NotFound"))

\* C22 as amended: a lookup by id whose fetch and decode succeed but whose
\* decoded collection is empty returns Error::Other, an error kind distinct
\* from the fetch and decode error kinds, and never an item.
C22_EmptyLookupIsOtherError ==
    EmptyLookupReturned =>
        /\ client.result = Some(Err("Other"))
        /\ client.result[1].tag # "Ok"
        /\ client.result[1].val \notin {"Reqwest", "SerdeJson"}

C22_Witness ==
    /\ EmptyLookupReturned
    /\ client.op = "get_quote_by_id"
    /\ client.fetches = 1
    /\ client.decodes = 1
    /\ client.result = Some(Err("Other"))

(***************************************************************************)
(* C23: fetch and decode failures reach the caller.                        *)
(***************************************************************************)
ClientCalled == pc \in {"client", "getter"}

\* The fetch of the call failed: no answer, or an error status.
FetchFailed == client.fetch \in {Some("network"), Some("status")}

\* The text fetched does not decode as Response<T>.
DecodeFailed ==
    /\ client.decodes > 0
    /\ Unwrap(client.T) \notin Unwrap(client.text).parses_as

\* C23: in every client operation a fetch failure (no answer or an error
\* status) is returned as Error::Reqwest and a decode failure as
\* Error::SerdeJson; neither is turned into an Ok result or an empty
\* collection.
C23_FailuresReachTheCaller ==
    ClientCalled =>
        /\ FetchFailed
              => /\ client.result = Some(Err("Reqwest"))
                 /\ client.response = None
        /\ (~FetchFailed /\ DecodeFailed)
              => /\ client.result = Some(Err("SerdeJson"))
                 /\ client.response = None
        /\ Err("Reqwest") # Err("SerdeJson")

C23_Witness ==
    /\ pc = "getter"
    /\ client.op = "get_books"
    /\ client.phase = "returned"
    /\ DecodeFailed
    /\ client.text = Some([parses_as |-> {"Movie"}, docs |-> <<"doc1", "doc2">>])
    /\ client.result = Some(Err("SerdeJson"))

(***************************************************************************)
(* C24: one fetch per call.                                                *)
(***************************************************************************)
\* C24: each client call performs exactly one fetch: a failed fetch is not
\* retried, the decoder runs only after a successful fetch and at most
\* once, and the call ends after the first failure.
C24_ExactlyOneFetch ==
    ClientCalled =>
        /\ client.fetches <= 1
        /\ client.phase = "returned" => client.fetches = 1
        /\ client.decodes <= 1
        /\ client.decodes = 1 => client.fetch = Some("text")
        /\ FetchFailed => client.decodes = 0
        /\ (client.result # None /\ client.result[1].tag = "Err")
              => client.phase = "returned"
        /\ client.phase = "returned"
              => (client.result # None /\ ~ENABLED NextClientOps)

C24_Witness ==
    /\ pc = "getter"
    /\ client.op = "get_quotes_from_movie"
    /\ client.phase = "returned"
    /\ client.fetch = Some("status")
    /\ client.fetches = 1
    /\ client.decodes = 0
    /\ client.result = Some(Err("Reqwest"))

(***************************************************************************)
(* C25: no default limit in the core.                                      *)
(***************************************************************************)
\* C25: the URL of a Request holds a 'limit=' fragment exactly when the
\* caller set a pagination with a non-zero limit, for every resource type;
\* among the typed getters only get_quotes requests a URL with a limit,
\* namely 'quote?limit=2400'.
C25_NoDefaultLimit ==
    (ClientCalled /\ client.url # None) =>
        /\ client.op = "get"
              => Contains(Unwrap(client.url), "limit")
                    = (/\ client.request.pagination # None
                       /\ client.request.pagination[1].limit # 0)
        /\ client.op \in Getters
              => Contains(Unwrap(client.url), "limit")
                    = (client.op = "get_quotes")
        /\ client.op = "get_quotes"
              => Unwrap(client.url)
                    = <<"quote", "?", "limit", "=", "2", "4", "0", "0">>

C25_Witness ==
    /\ pc = "client"
    /\ client.url # None
    /\ client.request.item_type = "Character"
    /\ client.request.secondary_item_type = Some("Quote")
    /\ client.request.pagination = None
    /\ ~Contains(Unwrap(client.url), "limit")

(***************************************************************************)
(* C26: what Client::get returns on success.                               *)
(***************************************************************************)
\* C26: when Client::get succeeds, the returned collection has the length
\* and the order of the decoded documents, and every item is wrapped in the
\* Item variant of the request's effective resource type.
C26_ItemsWrappedInEffectiveType ==
    (pc = "client" /\ client.result # None /\ client.result[1].tag = "Ok") =>
        LET items == client.result[1].val
            docs == Unwrap(client.text).docs
        IN  /\ Len(items) = Len(docs)
            /\ \A i \in 1..Len(docs) :
                  /\ items[i].variant = EffectiveType(client.request)
                  /\ items[i].doc = docs[i]

C26_Witness ==
    /\ pc = "client"
    /\ client.result # None
    /\ client.result[1].tag = "Ok"
    /\ client.request.item_type = "Book"
    /\ client.request.secondary_item_type = Some("Chapter")
    /\ client.result[1].val
          = <<[variant |-> "Chapter", doc |-> "doc1"],
              [variant |-> "Chapter", doc |-> "doc2"]>>

(***************************************************************************)
(* requests.rs: the earlier builder.  It starts from Request::new() with   *)
(* the item type Book, and its build() cannot fail.                        *)
(***************************************************************************)
Hist_Request_new ==
    [item_type |-> "Book", id |-> None, second_item |-> None, limit |-> None,
     offset |-> None, page |-> None, sort |-> None, filter |-> None]

\* A variant of item_type() that overrides the item type even when a sort
\* is set.
Hist_item_type_Always(r, item) == [r EXCEPT !.item_type = item]

Hist_item_type(r, item) ==
    IF r.sort = None THEN [r EXCEPT !.item_type = item] ELSE r

Hist_id(r, id) == [r EXCEPT !.id = Some(id)]
Hist_second_item(r, second_item) == [r EXCEPT !.second_item = Some(second_item)]
Hist_limit(r, limit) == [r EXCEPT !.limit = Some(limit)]
Hist_offset(r, offset) == [r EXCEPT !.offset = Some(offset)]
Hist_page(r, page) == [r EXCEPT !.page = Some(page)]

Hist_sort(r, sort) ==
    LET item_type == ItemTypeFromAttribute(sort.sort_by)
    IN  [r EXCEPT !.item_type = item_type, !.sort = Some(sort)]

Hist_filter(r, filter) == [r EXCEPT !.filter = Some(filter)]

Hist_get_url(r) ==
    LET u0 == IF r.sort # None
              THEN ItemType_get_url(ItemTypeFromAttribute(Unwrap(r.sort).sort_by))
              ELSE ItemType_get_url(r.item_type)
        u1 == IF r.id # None THEN u0 \o <<"/">> \o Unwrap(r.id) ELSE u0
        u2 == IF r.second_item # None
              THEN u1 \o <<"/">> \o ItemType_get_url(Unwrap(r.second_item))
              ELSE u1
        u3 == IF r.limit # None
              THEN u2 \o <<"?", "limit", "=">> \o FormatU32(Unwrap(r.limit))
              ELSE u2
        u4 == IF r.page # None
              THEN u3 \o <<"?", "page", "=">> \o FormatU32(Unwrap(r.page))
              ELSE u3
        u5 == IF r.offset # None
              THEN u4 \o <<"?", "offset", "=">> \o FormatU32(Unwrap(r.offset))
              ELSE u4
        u6 == IF r.sort # None
              THEN u5 \o <<"?">> \o Sort_get_url(Unwrap(r.sort))
              ELSE u5
    IN  IF r.filter # None
        THEN u6 \o <<"?">> \o Filter_get_url(Unwrap(r.filter))
        ELSE u6

HistTypes == {"Book", "Character", "Quote"}
HistSorts ==
    {Sort_new("Ascending", [variant |-> "Book", inner |-> "Name"]),
     Sort_new("Ascending", [variant |-> "Character", inner |-> "Hair"]),
     Sort_new("Descending", [variant |-> "Quote", inner |-> "Dialog"])}
HistFilters ==
    {Filter_Match([variant |-> "Book", inner |-> "Name"], "Eq", <<<<"a">>>>)}

InitHist ==
    /\ pc = "hist_builder"
    /\ builder = Hist_Request_new
    /\ args = [item_type |-> None, sort |-> None]
    /\ url = None
    /\ result = None
    /\ outOfOrder = FALSE
    /\ repeated = FALSE
    /\ call = None
    /\ client = None

HistUnchanged == UNCHANGED <<pc, url, result, outOfOrder, repeated, call, client>>

HistItemType ==
    /\ pc = "hist_builder"
    /\ \E item \in HistTypes :
          /\ builder' = Hist_item_type(builder, item)
          /\ args' = [args EXCEPT !.item_type = Some(item)]
    /\ HistUnchanged

HistSort ==
    /\ pc = "hist_builder"
    /\ \E sort \in HistSorts :
          /\ builder' = Hist_sort(builder, sort)
          /\ args' = [args EXCEPT !.sort = Some(sort)]
    /\ HistUnchanged

HistId ==
    /\ pc = "hist_builder"
    /\ builder' = Hist_id(builder, <<"1">>)
    /\ UNCHANGED args
    /\ HistUnchanged

HistSecondItem ==
    /\ pc = "hist_builder"
    /\ builder' = Hist_second_item(builder, "Quote")
    /\ UNCHANGED args
    /\ HistUnchanged

HistLimit ==
    /\ pc = "hist_builder"
    /\ builder' = Hist_limit(builder, 10)
    /\ UNCHANGED args
    /\ HistUnchanged

HistOffset ==
    /\ pc = "hist_builder"
    /\ builder' = Hist_offset(builder, 5)
    /\ UNCHANGED args
    /\ HistUnchanged

HistPage ==
    /\ pc = "hist_builder"
    /\ builder' = Hist_page(builder, 2)
    /\ UNCHANGED args
    /\ HistUnchanged

HistFilter ==
    /\ pc = "hist_builder"
    /\ \E filter \in HistFilters : builder' = Hist_filter(builder, filter)
    /\ UNCHANGED args
    /\ HistUnchanged

\* build() returns the request as it is.
HistBuild ==
    /\ pc = "hist_builder"
    /\ pc' = "hist_built"
    /\ result' = Some(builder)
    /\ UNCHANGED <<builder, args, url, outOfOrder, repeated, call, client>>

HistGetUrl ==
    /\ pc = "hist_built"
    /\ pc' = "hist_url"
    /\ url' = Some(Hist_get_url(Unwrap(result)))
    /\ UNCHANGED <<builder, args, result, outOfOrder, repeated, call, client>>

NextHist ==
    \/ HistItemType
    \/ HistSort
    \/ HistId
    \/ HistSecondItem
    \/ HistLimit
    \/ HistOffset
    \/ HistPage
    \/ HistFilter
    \/ HistBuild
    \/ HistGetUrl

SpecHist == InitHist /\ [][NextHist]_vars

(***************************************************************************)
(* C27: in the earlier builder a sort decides the item type.               *)
(***************************************************************************)
\* C27: after any sequence of setter calls, if a sort is set then the
\* request's item type is the owning type of the last sort's attribute, and
\* the first segment of the URL is the wire segment of that type.
C27_SortDecidesItemType ==
    (pc \in {"hist_builder", "hist_built", "hist_url"} /\ args.sort # None) =>
        /\ builder.sort = args.sort
        /\ builder.item_type = OwningType(args.sort[1].sort_by)
        /\ pc = "hist_url"
              => Unwrap(url)[1] = WireSegment[OwningType(args.sort[1].sort_by)][1]

C27_Witness ==
    /\ pc = "hist_url"
    /\ args.sort
         = Some(Sort_new("Ascending", [variant |-> "Character", inner |-> "Hair"]))
    /\ args.item_type = Some("Book")
    /\ builder.item_type = "Character"
    /\ Unwrap(url)
         = <<"character", "?", "limit", "=", "1", "0", "?", "page", "=", "2",
             "?", "offset", "=", "5", "?", "sort", "=", "hair", ":", "asc">>

(***************************************************************************)
(* C28: the typed getters and the builder agree on the URL.                *)
(***************************************************************************)
\* The builder calls that stand for a typed getter.
EquivalentBuilder(op, id) ==
    CASE op = "get_books" -> RequestBuilder_new("Book")
      [] op = "get_movies" -> RequestBuilder_new("Movie")
      [] op = "get_quotes" -> RequestBuilder_new("Quote")
      [] op = "get_characters" -> RequestBuilder_new("Character")
      [] op = "get_chapters" -> RequestBuilder_new("Chapter")
      [] op = "get_book_by_id" -> RequestBuilder_id(RequestBuilder_new("Book"), id)
      [] op = "get_movie_by_id" ->
            RequestBuilder_id(RequestBuilder_new("Movie"), id)
      [] op = "get_quote_by_id" ->
            RequestBuilder_id(RequestBuilder_new("Quote"), id)
      [] op = "get_character_by_id" ->
            RequestBuilder_id(RequestBuilder_new("Character"), id)
      [] op = "get_chapter_by_id" ->
            RequestBuilder_id(RequestBuilder_new("Chapter"), id)
      [] op = "get_chapters_from_book" ->
            RequestBuilder_secondary_item_type(
                RequestBuilder_id(RequestBuilder_new("Book"), id), "Chapter")
      [] op = "get_quotes_from_movie" ->
            RequestBuilder_secondary_item_type(
                RequestBuilder_id(RequestBuilder_new("Movie"), id), "Quote")
      [] op = "get_quotes_from_character" ->
            RequestBuilder_secondary_item_type(
                RequestBuilder_id(RequestBuilder_new("Character"), id), "Quote")

\* C28: each typed getter requests the URL that the builder produces for the
\* equivalent request; the only exception is get_quotes, which requests
\* 'quote?limit=2400'.
C28_GettersAgreeWithBuilder ==
    (pc = "getter" /\ client.url # None) =>
        LET b == EquivalentBuilder(client.op,
                                   IF client.id = None THEN <<>>
                                   ELSE client.id[1])
        IN  /\ RequestBuilder_build(b).tag = "Ok"
            /\ client.op # "get_quotes"
                  => Unwrap(client.url)
                        = Request_get_url(RequestBuilder_build(b).val)
            /\ client.op = "get_quotes"
                  => /\ Unwrap(client.url)
                          = <<"quote", "?", "limit", "=", "2", "4", "0", "0">>
                     /\ Unwrap(client.url)
                          # Request_get_url(RequestBuilder_build(b).val)

C28_Witness ==
    /\ pc = "getter"
    /\ client.op = "get_chapters_from_book"
    /\ client.id = Some(<<"5", "c", "d">>)
    /\ client.url = Some(<<"book", "/", "5", "c", "d", "/", "chapter">>)

(***************************************************************************)
(* C29: a setter writes its own field only, and the last write wins.       *)
(***************************************************************************)
\* A call on the live builder: the setter called is the one whose last
\* argument is recorded; the fields of the other setters and the primary
\* type are left as they were.
SetterFrame ==
    (pc = "builder" /\ pc' = "builder") =>
        /\ builder'.item_type = builder.item_type
        /\ \A s \in Setters :
              /\ args'[s] = args[s] => builder'[s] = builder[s]
              /\ args'[s] # args[s] => builder'[s] = args'[s]

\* C29: each setter overwrites only its own field and leaves the primary
\* type and the four other fields unchanged, and when a setter is called
\* more than once the built Request holds the value of the last call.
C29_SetterFrameLastWriteWins ==
    /\ [][SetterFrame]_vars
    /\ []((repeated /\ BuiltOk) => BuildResult.val = args)

C29_Witness ==
    /\ pc = "url"
    /\ repeated
    /\ BuiltOk
    /\ args.id # None
    /\ args.filter # None
    /\ args.pagination # None
    /\ BuildResult.val = args

(***************************************************************************)
(* C30: build() hands over the builder's fields as they are.               *)
(***************************************************************************)
RequestFields ==
    {"item_type", "id", "secondary_item_type", "sort", "filter", "pagination"}

\* C30: on success the Request returned by build() has exactly the primary
\* type, id, secondary type, sort, filter and pagination accumulated by the
\* builder, and its URL is the URL of those fields.
C30_BuildChangesNothing ==
    BuiltOk =>
        /\ DOMAIN BuildResult.val = RequestFields
        /\ \A f \in RequestFields : BuildResult.val[f] = builder[f]
        /\ pc = "url"
              => Unwrap(url) = ExpectedPath(builder) \o ExpectedQuery(builder)

C30_Witness ==
    /\ pc = "url"
    /\ BuiltOk
    /\ builder.sort # None
    /\ builder.id # None
    /\ builder.pagination = Some(Pagination_new(0, 0, 0))
    /\ BuildResult.val.pagination = Some(Pagination_new(0, 0, 0))

====
